---- MODULE Spec2Model ----
(***************************************************************************)
(* validate_drp: the AFx and PA2 measurement functions (calcsrd/afx.py,    *)
(* calcsrd/pa2.py) and the report generator (performance_summary.py).      *)
(*                                                                         *)
(* The measurement functions are pure: each has a specification whose Init *)
(* draws the call's arguments from bounded sets and whose single action is *)
(* the call.  The report generator's loops are run step by step.           *)
(*                                                                         *)
(* Numbers.  A float is a record [cls, v]: cls is "nan", "inf" (v the      *)
(* sign) or "fin" (v an integer, the value in the array's unit).  A        *)
(* computed quantity is an exact fraction [cls, num, den] in lowest terms. *)
(***************************************************************************)
EXTENDS Integers, Sequences, FiniteSets, TLC

VARIABLES
    \* measureAFx(metric, amx, adx, adx_spec)
    amx,            \* the AMx measurement: [quantity, extras]
    adx,            \* the ADx datum holder: [datum]
    adx_spec,       \* the ADx specification: [threshold]
    afx,            \* the call: [state, compared, quantity, unit, extras]
    \* measurePA2(metric, pa1, pf1_thresh)
    pa1,            \* the PA1 measurement: [magDiff, unit], magDiff[trial][star]
    pf1_thresh,     \* the PF1 threshold, in percent
    pa2,            \* the call: [state, quantity, unit, extras]
    \* ingest_data(filenames)
    filenames,      \* the files to read, in order
    file_idx,       \* the number of files the loop has taken
    jobs,           \* the mapping built so far: filter name -> Job
    ingest,         \* "loop", "returned" or "raised"
    \* objects_to_table(input_objects, level) and add_release_metric(data, ...)
    input_objects,  \* filter name -> Job
    level,          \* the specification level of the table
    release_metrics,\* metric name -> release metric
    release_level,  \* the release level, e.g. 'FY17'
    data,           \* the table: [colnames, rows]
    report,         \* [state, order, before]: the step reached, the order the
                    \* mapping was iterated in, the table add_release_metric found
    \* run(validation_drp_report_filenames, output_file, release_metrics_file,
    \*     release_level)
    run_pc,         \* the statement of run to execute next, "done" or "raised"
    release_metrics_file, \* the release metrics file: [given, readable, metrics]
    output_file,    \* the file at the output path: [exists, content, writes]
    output_before   \* the file at the output path when run was called

afxVars == <<amx, adx, adx_spec, afx>>
pa2Vars == <<pa1, pf1_thresh, pa2>>
ingestVars == <<filenames, file_idx, jobs, ingest>>
tableVars == <<input_objects, level, release_metrics, release_level, data, report>>
runVars == <<run_pc, release_metrics_file, output_file, output_before>>
vars == <<afxVars, pa2Vars, ingestVars, tableVars, runVars>>

----------------------------------------------------------------------------
(* Bounds *)

\* the longest rmsDistMas array, and the most stars of a magDiff row
MaxStars == 3
\* the most resampling trials (rows) of magDiff
MaxTrials == 2
\* the most files given to ingest_data
MaxFiles == 3
\* the most measurements over all the Jobs given to objects_to_table
MaxMeas == 2

----------------------------------------------------------------------------
(* Floats and exact fractions *)

NaN == [cls |-> "nan", v |-> 0]
PInf == [cls |-> "inf", v |-> 1]
NInf == [cls |-> "inf", v |-> -1]
Fin(n) == [cls |-> "fin", v |-> n]

isnan(x) == x.cls = "nan"

\* IEEE addition: NaN is absorbing, inf + (-inf) is NaN
FloatAdd(x, y) ==
    IF isnan(x) \/ isnan(y) THEN NaN
    ELSE IF x.cls = "inf" /\ y.cls = "inf" THEN (IF x.v = y.v THEN x ELSE NaN)
    ELSE IF x.cls = "inf" THEN x
    ELSE IF y.cls = "inf" THEN y
    ELSE Fin(x.v + y.v)

\* IEEE x > y: false whenever an operand is NaN
FloatGt(x, y) ==
    IF isnan(x) \/ isnan(y) THEN FALSE
    ELSE IF x.cls = "inf" THEN x.v = 1 /\ y # PInf
    ELSE IF y.cls = "inf" THEN y.v = -1
    ELSE x.v > y.v

Abs(n) == IF n < 0 THEN -n ELSE n

RECURSIVE GCD(_, _)
GCD(a, b) == IF b = 0 THEN a ELSE GCD(b, a % b)

\* the fraction n/d (d > 0) in lowest terms
Ratio(n, d) ==
    LET g == GCD(Abs(n), d)
    IN  [cls |-> "fin", num |-> n \div g, den |-> d \div g]

RatioNaN == [cls |-> "nan", num |-> 0, den |-> 1]

\* 100. * x
Times100(x) == IF x.cls = "nan" THEN RatioNaN ELSE Ratio(100 * x.num, x.den)

RECURSIVE SumTrue(_)
SumTrue(mask) ==
    IF mask = <<>> THEN 0
    ELSE (IF Head(mask) THEN 1 ELSE 0) + SumTrue(Tail(mask))

\* the mean taken over the selected entries only: NaN when none is selected
np_mean_ofSelected(mask) ==
    IF SumTrue(mask) = 0 THEN RatioNaN ELSE Ratio(SumTrue(mask), Len(mask))
\* np.mean of a boolean array: the sum over the size, NaN for an empty array
np_mean(mask) ==
    IF Len(mask) = 0 THEN RatioNaN ELSE Ratio(SumTrue(mask), Len(mask))

----------------------------------------------------------------------------
(* calcsrd/afx.py *)

\* dict.update: the keys of other are added, and win over those already there
DictUpdate(d, other) ==
    [k \in DOMAIN d \cup DOMAIN other |->
        IF k \in DOMAIN other THEN other[k] ELSE d[k]]

\* datums bound to amx.extras itself instead of a new dict: the ADx datum is
\* written into the AMx measurement's own mapping
CopyExtras_aliased(datums, extras) ==
    [new |-> DictUpdate(extras, datums), source |-> DictUpdate(extras, datums)]
\* datums.update(amx.extras): the new mapping, and amx.extras after the call
CopyExtras(datums, extras) ==
    [new |-> DictUpdate(datums, extras), source |-> extras]

AMxUndefined_never(m) == FALSE
\* the guard of the comparison: np.isnan(amx.quantity)
AMxUndefined(m) == isnan(m.quantity)

ExceedsMask_ge(rms, limit) ==
    [i \in 1..Len(rms) |-> FloatGt(rms[i], limit) \/ rms[i] = limit]
\* rmsDistMas > amx.quantity + adx_spec.threshold, elementwise
ExceedsMask(rms, limit) == [i \in 1..Len(rms) |-> FloatGt(rms[i], limit)]

\* The call's outcome: state "returned" with the Measurement's fields, or
\* "raised" (KeyError: the comparison reads extras['rmsDistMas']); compared
\* says whether the comparison was evaluated; amx_extras is amx.extras as the
\* call leaves it.
measureAFx(metric, m, d, s) ==
    LET datums0 == [k \in {"ADx"} |-> d.datum]
        copied == CopyExtras(datums0, m.extras)
    IN  IF ~AMxUndefined(m)
        THEN IF "rmsDistMas" \notin DOMAIN m.extras
             THEN [state |-> "raised", compared |-> FALSE, metric |-> metric,
                   quantity |-> RatioNaN, unit |-> "percent",
                   extras |-> datums0, amx_extras |-> m.extras]
             ELSE [state |-> "returned", compared |-> TRUE, metric |-> metric,
                   quantity |-> Times100(np_mean(ExceedsMask(
                                   m.extras["rmsDistMas"],
                                   FloatAdd(m.quantity, s.threshold)))),
                   unit |-> "percent",
                   extras |-> copied.new, amx_extras |-> copied.source]
        ELSE [state |-> "returned", compared |-> FALSE, metric |-> metric,
              quantity |-> RatioNaN, unit |-> "percent",
              extras |-> copied.new, amx_extras |-> copied.source]

----------------------------------------------------------------------------
(* The inputs of measureAFx *)

RECURSIVE SeqsUpTo(_, _)
\* the sequences over S of length 0..n
SeqsUpTo(S, n) ==
    IF n = 0 THEN {<<>>}
    ELSE LET shorter == SeqsUpTo(S, n - 1)
         IN  shorter \cup {Append(s, x) : s \in {t \in shorter : Len(t) = n - 1}, x \in S}

SeqsOfLen(S, n) == {s \in SeqsUpTo(S, n) : Len(s) = n}

AMxQuantities == {NaN, PInf, Fin(1), Fin(5)}
ADxThresholds == {NaN, NInf, Fin(0), Fin(2)}
RmsValues == {NaN, Fin(3), Fin(7), Fin(8)}
\* the array of the specification's worked example
ExampleRms == [i \in 1..8 |-> Fin(i + 2)]
RmsArrays == SeqsUpTo(RmsValues, MaxStars) \cup {ExampleRms}
Datums == {"D1", "D2"}

\* amx.extras: 'annulus' always, 'rmsDistMas' and 'ADx' when given
MkExtras(hasRms, rms, hasADx, d) ==
    [k \in {"annulus"} \cup (IF hasRms THEN {"rmsDistMas"} ELSE {})
                       \cup (IF hasADx THEN {"ADx"} ELSE {}) |->
        IF k = "rmsDistMas" THEN rms
        ELSE IF k = "ADx" THEN d
        ELSE "annulusDatum"]

AMxExtras ==
    {MkExtras(TRUE, r, ha, d) : r \in RmsArrays, ha \in BOOLEAN, d \in Datums}
    \cup {MkExtras(FALSE, <<>>, ha, d) : ha \in BOOLEAN, d \in Datums}

\* no call yet; extras_at_call keeps amx.extras as the call found it
AFxPending ==
    [state |-> "pending", compared |-> FALSE, metric |-> "AF1",
     quantity |-> RatioNaN, unit |-> "percent",
     extras |-> [k \in {} |-> "none"],
     extras_at_call |-> [k \in {} |-> "none"]]

AFxIdle ==
    /\ amx = [quantity |-> NaN, extras |-> [k \in {} |-> "none"]]
    /\ adx = [datum |-> "D1"]
    /\ adx_spec = [threshold |-> NaN]
    /\ afx = [AFxPending EXCEPT !.state = "idle"]

InputsAFx ==
    /\ amx \in [quantity : AMxQuantities, extras : AMxExtras]
    /\ adx \in [datum : Datums]
    /\ adx_spec \in [threshold : ADxThresholds]
    /\ afx = AFxPending

\* the call measureAFx(metric, amx, adx, adx_spec)
MeasureAFx ==
    /\ afx.state = "pending"
    /\ LET r == measureAFx("AF1", amx, adx, adx_spec)
       IN  /\ afx' = [state |-> r.state, compared |-> r.compared,
                       metric |-> r.metric, quantity |-> r.quantity,
                       unit |-> r.unit, extras |-> r.extras,
                       extras_at_call |-> amx.extras]
           /\ amx' = [amx EXCEPT !.extras = r.amx_extras]
    /\ UNCHANGED <<adx, adx_spec>>

----------------------------------------------------------------------------
(* calcsrd/pa2.py *)

RECURSIVE Insert(_, _)
Insert(x, s) ==
    IF s = <<>> THEN <<x>>
    ELSE IF x <= Head(s) THEN <<x>> \o s
    ELSE <<Head(s)>> \o Insert(x, Tail(s))

RECURSIVE Sorted(_)
\* the array in ascending order
Sorted(a) == IF a = <<>> THEN <<>> ELSE Insert(Head(a), Sorted(Tail(a)))

\* np.percentile(a, q), a non-empty and 0 <= q <= 100 (q an integer): the
\* virtual index q/100 * (n - 1) into the sorted array, and the linear
\* interpolation between the two entries around it
np_percentile(a, q) ==
    LET s == Sorted(a)
        n == Len(s)
        prev == (q * (n - 1)) \div 100
        next == IF prev + 1 > n - 1 THEN n - 1 ELSE prev + 1
        gamma100 == q * (n - 1) - 100 * prev
    IN  Ratio(100 * s[prev + 1] + gamma100 * (s[next + 1] - s[prev + 1]), 100)

\* np.abs, elementwise
np_abs(a) == [i \in 1..Len(a) |-> Abs(a[i])]

FirstTrial_last(magDiff) == magDiff[Len(magDiff)]
\* quantity[0, :]: the first random sample
FirstTrial(magDiff) == magDiff[1]

Pf1Percentile_same(pf1) == pf1
\* pf1Percentile = 100 percent - pf1_thresh
Pf1Percentile(pf1) == 100 - pf1

Magnitudes_signed(magDiffs) == magDiffs
\* np.abs(magDiffs)
Magnitudes(magDiffs) == np_abs(magDiffs)

measurePA2(metric, p, pf1) ==
    LET magDiffs == FirstTrial(p.magDiff)
    IN  [state |-> "returned", metric |-> metric,
         quantity |-> np_percentile(Magnitudes(magDiffs), Pf1Percentile(pf1)),
         unit |-> p.unit,
         extras |-> [pf1_thresh |-> pf1]]

----------------------------------------------------------------------------
(* The inputs of measurePA2 *)

MagValues == {-2, 0, 1}
PF1Thresholds == {0, 20, 50, 100}

\* the values of the trials after the first
LaterTrialValues == {-2, 1}

\* the magDiff arrays of shape (trials, stars): any first trial, followed by
\* any later trials
MagDiffArrays(trials, stars) ==
    {<<first>> \o later :
        first \in SeqsOfLen(MagValues, stars),
        later \in SeqsOfLen(SeqsOfLen(LaterTrialValues, stars), trials - 1)}

PA2Pending ==
    [state |-> "pending", metric |-> "PA2", quantity |-> Ratio(0, 1),
     unit |-> "mmag", extras |-> [pf1_thresh |-> 0]]

PA2Idle ==
    /\ pa1 = [magDiff |-> <<<<0>>>>, unit |-> "mmag"]
    /\ pf1_thresh = 0
    /\ pa2 = [PA2Pending EXCEPT !.state = "idle"]

InputsPA2 ==
    /\ \E trials \in 1..MaxTrials, stars \in 1..MaxStars :
          pa1 \in [magDiff : MagDiffArrays(trials, stars), unit : {"mmag"}]
    /\ pf1_thresh \in PF1Thresholds
    /\ pa2 = PA2Pending

\* the call measurePA2(metric, pa1, pf1_thresh)
MeasurePA2 ==
    /\ pa2.state = "pending"
    /\ pa2' = measurePA2("PA2", pa1, pf1_thresh)
    /\ UNCHANGED <<pa1, pf1_thresh>>

----------------------------------------------------------------------------
(* performance_summary.py: ingest_data *)

FilterNames == {"r", "i"}
MetricNames == {"PA1", "AM1"}
SpecLevels == {"design", "minimum"}
\* spec_name of a measurement that applies at every level (None)
NoSpec == "None"

\* meas.quantity: None, or a value
NoQuantity == [none |-> TRUE, value |-> 0]
Quantity(v) == [none |-> FALSE, value |-> v]

Measurements ==
    [metric : MetricNames, spec_name : SpecLevels \cup {NoSpec},
     quantity : {NoQuantity, Quantity(7)}]

\* a Job: the filter it was run for ("?" when none can be determined) and
\* its measurements, in the order they were registered
JobsWith(filters, measurementLists) ==
    [filter : filters, measurements : measurementLists]

\* a file: one that load_json_output cannot read, or a persisted Job
Unreadable == [readable |-> FALSE, job |-> [filter |-> "?", measurements |-> <<>>]]
FileOf(job) == [readable |-> TRUE, job |-> job]

\* load_json_output(file): the Job, or an error for malformed JSON
load_json_output(file) ==
    IF file.readable THEN [raised |-> FALSE, job |-> file.job]
    ELSE [raised |-> TRUE, job |-> file.job]

\* get_filter_name_from_job(job): the filter name, or an error when the Job
\* does not determine one
get_filter_name_from_job(job) ==
    IF job.filter = "?" THEN [raised |-> TRUE, filter_name |-> "?"]
    ELSE [raised |-> FALSE, filter_name |-> job.filter]

\* setdefault instead of an assignment: the first Job of a filter is kept
StoreJob_firstWins(mapping, filter_name, job) ==
    IF filter_name \in DOMAIN mapping THEN mapping
    ELSE [k \in DOMAIN mapping \cup {filter_name} |->
             IF k = filter_name THEN job ELSE mapping[k]]
\* jobs[filter_name] = job
StoreJob(mapping, filter_name, job) ==
    [k \in DOMAIN mapping \cup {filter_name} |->
        IF k = filter_name THEN job ELSE mapping[k]]

EmptyDict == [k \in {} |-> "none"]

\* one turn of the loop of ingest_data over file: the mapping after it, or
\* the error that leaves the function
IngestOne(mapping, file) ==
    LET loaded == load_json_output(file)
        named == get_filter_name_from_job(loaded.job)
    IN  IF loaded.raised \/ named.raised
        THEN [raised |-> TRUE, jobs |-> mapping]
        ELSE [raised |-> FALSE,
              jobs |-> StoreJob(mapping, named.filter_name, loaded.job)]

IngestFiles ==
    {Unreadable} \cup
    {FileOf(j) : j \in JobsWith(FilterNames \cup {"?"},
                    {<<>>, <<[metric |-> "PA1", spec_name |-> NoSpec,
                              quantity |-> Quantity(7)]>>})}

IngestIdle ==
    /\ filenames = <<>>
    /\ file_idx = 0
    /\ jobs = EmptyDict
    /\ ingest = "idle"

InputsIngest ==
    /\ filenames \in SeqsUpTo(IngestFiles, MaxFiles)
    /\ file_idx = 0
    /\ jobs = EmptyDict
    /\ ingest = "loop"

\* for file in filenames: one file
IngestFile ==
    /\ ingest = "loop"
    /\ file_idx < Len(filenames)
    /\ LET r == IngestOne(jobs, filenames[file_idx + 1])
       IN  /\ jobs' = r.jobs
           /\ ingest' = IF r.raised THEN "raised" ELSE "loop"
    /\ file_idx' = file_idx + 1
    /\ UNCHANGED filenames

\* return jobs
IngestReturn ==
    /\ ingest = "loop"
    /\ file_idx = Len(filenames)
    /\ ingest' = "returned"
    /\ UNCHANGED <<filenames, file_idx, jobs>>

----------------------------------------------------------------------------
(* performance_summary.py: objects_to_table, add_release_metric *)

\* the metric definitions a measurement refers to: unit and operator
MetricUnit(name) == IF name = "PA1" THEN "mmag" ELSE "marcsec"
MetricOperator(name) == "<="

\* m.get_spec(level, filter_name=filter_name).quantity.value
SrdRequirement(name, lvl, filter_name) ==
    (IF name = "PA1" THEN 5 ELSE 10) * (IF lvl = "design" THEN 1 ELSE 2)
        + (IF filter_name = "r" THEN 0 ELSE 1)

SkipMeasurement_never(meas, lvl) == FALSE
SkipMeasurement_unlessEqual(meas, lvl) == meas.spec_name # lvl
\* the levels that are not the one looked for:
\* meas.spec_name is not None and meas.spec_name != level
SkipMeasurement(meas, lvl) == meas.spec_name # NoSpec /\ meas.spec_name # lvl

\* this_row, keyed by the column it goes to; Value is '--' for no quantity
ThisRow(meas, filter_name, lvl) ==
    [c \in {"Metric", "Filter", "Value", "Unit", "Operator",
            "SRD Requirement: " \o lvl} |->
        CASE c = "Metric" -> meas.metric
          [] c = "Filter" -> filter_name
          [] c = "Value" -> IF meas.quantity.none
                            THEN [dash |-> TRUE, value |-> 0]
                            ELSE [dash |-> FALSE, value |-> meas.quantity.value]
          [] c = "Unit" -> MetricUnit(meas.metric)
          [] c = "Operator" -> MetricOperator(meas.metric)
          [] OTHER -> SrdRequirement(meas.metric, lvl, filter_name)]

RECURSIVE JobRows(_, _, _)
\* the rows of one Job: for meas in obj.measurements
JobRows(measurements, filter_name, lvl) ==
    IF measurements = <<>> THEN <<>>
    ELSE (IF SkipMeasurement(Head(measurements), lvl) THEN <<>>
          ELSE <<ThisRow(Head(measurements), filter_name, lvl)>>)
         \o JobRows(Tail(measurements), filter_name, lvl)

RECURSIVE AllRows(_, _, _)
\* for filter_name, obj in input_objects.items(), in the order the mapping
\* yields its items
AllRows(objects, order, lvl) ==
    IF order = <<>> THEN <<>>
    ELSE JobRows(objects[Head(order)].measurements, Head(order), lvl)
         \o AllRows(objects, Tail(order), lvl)

\* row with column c set to v
WithColumn(row, c, v) ==
    [k \in DOMAIN row \cup {c} |-> IF k = c THEN v ELSE row[k]]

\* the table of objects_to_table: the six columns of the rows, and an empty
\* 'Comments' column added last
objects_to_table(objects, order, lvl) ==
    LET rows == AllRows(objects, order, lvl)
    IN  [colnames |-> <<"Metric", "Filter", "Value", "Unit", "Operator",
                        "SRD Requirement: " \o lvl, "Comments">>,
         rows |-> [i \in 1..Len(rows) |-> WithColumn(rows[i], "Comments", "")]]

\* a release metric: get_spec(name, filter_name).quantity.value is read off it
ReleaseMetricsOf(names) == [n \in names |-> [name |-> n, scale |-> 100]]
ReleaseLevels == {"FY17", "ORR"}

\* metric.get_spec(name=release_metrics_level,
\*                 filter_name=row['Filter']).quantity.value
ReleaseTarget(metric, lvl, filter_name) ==
    metric.scale * (IF lvl = "FY17" THEN 1 ELSE 2)
        + (IF metric.name = "PA1" THEN 10 ELSE 20)
        + (IF filter_name = "r" THEN 0 ELSE 1)

\* the filter of the row is not passed on: the specification of filter 'r'
RowReleaseTarget_noFilter(row, metrics, lvl) ==
    ReleaseTarget(metrics[row["Metric"]], lvl, "r")
\* the body of the loop over the rows: the release metric of the row's
\* metric name, and its specification at the level for the row's filter
RowReleaseTarget(row, metrics, lvl) ==
    ReleaseTarget(metrics[row["Metric"]], lvl, row["Filter"])

\* add_release_metric: a KeyError when a row's metric is not in
\* release_metrics (the table is then as it was), else the table with the
\* column 'Release Target: <level>' added last
add_release_metric(table, metrics, lvl) ==
    IF \E i \in 1..Len(table.rows) : table.rows[i]["Metric"] \notin DOMAIN metrics
    THEN [raised |-> TRUE, data |-> table]
    ELSE [raised |-> FALSE,
          data |-> [colnames |-> Append(table.colnames, "Release Target: " \o lvl),
                    rows |-> [i \in 1..Len(table.rows) |->
                        WithColumn(table.rows[i], "Release Target: " \o lvl,
                            RowReleaseTarget(table.rows[i], metrics, lvl))]]]

----------------------------------------------------------------------------
(* The inputs of objects_to_table and add_release_metric *)

\* the mappings over the filters fs (in a fixed order) whose Jobs hold at
\* most n measurements together; each Job is keyed by its own filter, as
\* ingest_data stores it
RECURSIVE ObjectsWithin(_, _)
ObjectsWithin(fs, n) ==
    IF fs = <<>> THEN {EmptyDict}
    ELSE LET f == Head(fs)
         IN  ObjectsWithin(Tail(fs), n) \cup
             UNION {{StoreJob(rest, f, [filter |-> f, measurements |-> ms]) :
                        rest \in ObjectsWithin(Tail(fs), n - Len(ms))} :
                    ms \in SeqsUpTo(Measurements, n)}

\* the orders a mapping may yield its keys in
KeyOrders(objects) ==
    {o \in SeqsOfLen(DOMAIN objects, Cardinality(DOMAIN objects)) :
        \A a, b \in 1..Len(o) : a # b => o[a] # o[b]}

EmptyTable == [colnames |-> <<>>, rows |-> <<>>]

TableIdle ==
    /\ input_objects = EmptyDict
    /\ level = "design"
    /\ release_metrics = EmptyDict
    /\ release_level = "FY17"
    /\ data = EmptyTable
    /\ report = [state |-> "idle", order |-> <<>>, before |-> EmptyTable]

InputsTable ==
    /\ input_objects \in ObjectsWithin(<<"r", "i">>, MaxMeas)
    /\ level \in SpecLevels
    /\ release_metrics \in {ReleaseMetricsOf(ns) : ns \in SUBSET MetricNames}
    /\ release_level \in ReleaseLevels
    /\ data = EmptyTable
    /\ report = [state |-> "start", order |-> <<>>, before |-> EmptyTable]

\* input_table = objects_to_table(input_objects, level)
ObjectsToTable ==
    /\ report.state = "start"
    /\ \E order \in KeyOrders(input_objects) :
          /\ data' = objects_to_table(input_objects, order, level)
          /\ report' = [report EXCEPT !.state = "tabulated", !.order = order]
    /\ UNCHANGED <<input_objects, level, release_metrics, release_level>>

\* add_release_metric(input_table, release_metrics, release_level)
AddReleaseMetric ==
    /\ report.state = "tabulated"
    /\ LET r == add_release_metric(data, release_metrics, release_level)
       IN  /\ data' = r.data
           /\ report' = [report EXCEPT
                  !.state = IF r.raised THEN "raised" ELSE "released",
                  !.before = data]
    /\ UNCHANGED <<input_objects, level, release_metrics, release_level>>

----------------------------------------------------------------------------
(* performance_summary.py: write_report, run *)

\* c.startswith(prefix), for the column names of the table: the prefix
\* itself, or the prefix followed by ': <level>'
StartsWith(c, prefix) ==
    \/ c = prefix
    \/ \E l \in SpecLevels \cup ReleaseLevels : c = prefix \o ": " \o l

\* no column name (None)
NoColumn == "None"

\* find_col_name: the first entry of colnames that starts with prefix
find_col_name(prefix, colnames) ==
    IF \E i \in 1..Len(colnames) : StartsWith(colnames[i], prefix)
    THEN colnames[CHOOSE i \in 1..Len(colnames) :
            /\ StartsWith(colnames[i], prefix)
            /\ \A j \in 1..(i - 1) : ~StartsWith(colnames[j], prefix)]
    ELSE NoColumn

\* the table write_report writes: the columns of col_names that the table
\* has, in that order (the rendering of the cells as text is left out)
write_report(table) ==
    LET release_target_col_name == find_col_name("Release Target", table.colnames)
        srd_requirement_col_name == find_col_name("SRD Requirement", table.colnames)
        col_names == <<"Metric", "Filter", "Unit", "Operator",
                       srd_requirement_col_name, release_target_col_name,
                       "Value", "Comments">>
        InTable(c) == \E i \in 1..Len(table.colnames) : table.colnames[i] = c
        use_col_names == SelectSeq(col_names, InTable)
    IN  [colnames |-> use_col_names,
         rows |-> [i \in 1..Len(table.rows) |->
                     [c \in {use_col_names[k] : k \in 1..Len(use_col_names)} |->
                         table.rows[i][c]]]]

\* release_level is None
NoReleaseLevel == "None"
\* release_metrics_file is None
NoMetricsFile == [given |-> FALSE, readable |-> FALSE, metrics |-> EmptyDict]
MetricsFileOf(names) ==
    [given |-> TRUE, readable |-> TRUE, metrics |-> ReleaseMetricsOf(names)]
UnreadableMetricsFile == [given |-> TRUE, readable |-> FALSE, metrics |-> EmptyDict]

\* load_metrics(release_metrics_file): the metrics, or an error
load_metrics(file) ==
    IF file.readable THEN [raised |-> FALSE, metrics |-> file.metrics]
    ELSE [raised |-> TRUE, metrics |-> file.metrics]

\* release_metrics_file is not None and release_level is not None
BothGiven(file, lvl) == file.given /\ lvl # NoReleaseLevel

\* the error is caught and run carries on with the next statement
Propagate_swallowed(raised, next) == next
\* run catches nothing: an error in a call leaves run, else the next
\* statement is executed
Propagate(raised, next) == IF raised THEN "raised" ELSE next

\* the file at the output path before the run: none, or an earlier report
AbsentFile == [exists |-> FALSE, content |-> EmptyTable, writes |-> 0]
EarlierReport == [exists |-> TRUE,
                  content |-> [colnames |-> <<"Metric">>, rows |-> <<>>],
                  writes |-> 0]

\* data[use_col_names].write(filename, overwrite=True)
WriteFile(file, content) ==
    [exists |-> TRUE, content |-> content, writes |-> file.writes + 1]

RunFiles ==
    {Unreadable} \cup
    {FileOf(j) : j \in JobsWith(FilterNames \cup {"?"},
        {<<[metric |-> "PA1", spec_name |-> NoSpec, quantity |-> Quantity(7)]>>,
         <<[metric |-> "AM1", spec_name |-> "design", quantity |-> NoQuantity],
           [metric |-> "PA1", spec_name |-> "minimum", quantity |-> Quantity(7)]>>})}

RunMetricsFiles ==
    {NoMetricsFile, UnreadableMetricsFile,
     MetricsFileOf({"PA1"}), MetricsFileOf({"PA1", "AM1"})}

RunIdle ==
    /\ run_pc = "idle"
    /\ release_metrics_file = NoMetricsFile
    /\ output_file = AbsentFile
    /\ output_before = AbsentFile

\* the call of run: level is the default of objects_to_table
InputsRun ==
    /\ filenames \in SeqsUpTo(RunFiles, MaxFiles)
    /\ file_idx = 0
    /\ jobs = EmptyDict
    /\ ingest = "idle"
    /\ input_objects = EmptyDict
    /\ level = "design"
    /\ release_metrics = EmptyDict
    /\ release_level \in ReleaseLevels \cup {NoReleaseLevel}
    /\ data = EmptyTable
    /\ report = [state |-> "idle", order |-> <<>>, before |-> EmptyTable]
    /\ run_pc = "ingest"
    /\ release_metrics_file \in RunMetricsFiles
    /\ output_file \in {AbsentFile, EarlierReport}
    /\ output_before = output_file

\* input_objects = ingest_data(...): one file of the loop
RunIngestFile ==
    /\ run_pc = "ingest"
    /\ file_idx < Len(filenames)
    /\ LET r == IngestOne(jobs, filenames[file_idx + 1])
       IN  /\ jobs' = r.jobs
           /\ run_pc' = Propagate(r.raised, "ingest")
    /\ file_idx' = file_idx + 1
    /\ UNCHANGED <<filenames, ingest, tableVars,
                   release_metrics_file, output_file, output_before>>

\* input_objects = ingest_data(...): the loop is over, the mapping returned
RunIngestReturn ==
    /\ run_pc = "ingest"
    /\ file_idx = Len(filenames)
    /\ input_objects' = jobs
    /\ run_pc' = "table"
    /\ UNCHANGED <<ingestVars, level, release_metrics, release_level, data,
                   report, release_metrics_file, output_file, output_before>>

\* input_table = objects_to_table(input_objects), and the test that follows
RunObjectsToTable ==
    /\ run_pc = "table"
    /\ \E order \in KeyOrders(input_objects) :
          data' = objects_to_table(input_objects, order, level)
    /\ run_pc' = IF BothGiven(release_metrics_file, release_level)
                 THEN "load_metrics" ELSE "write"
    /\ UNCHANGED <<ingestVars, input_objects, level, release_metrics,
                   release_level, report,
                   release_metrics_file, output_file, output_before>>

\* release_metrics = load_metrics(release_metrics_file)
RunLoadMetrics ==
    /\ run_pc = "load_metrics"
    /\ LET r == load_metrics(release_metrics_file)
       IN  /\ release_metrics' = r.metrics
           /\ run_pc' = Propagate(r.raised, "release")
    /\ UNCHANGED <<ingestVars, input_objects, level, release_level, data,
                   report, release_metrics_file, output_file, output_before>>

\* add_release_metric(input_table, release_metrics, release_level)
RunAddReleaseMetric ==
    /\ run_pc = "release"
    /\ LET r == add_release_metric(data, release_metrics, release_level)
       IN  /\ data' = r.data
           /\ run_pc' = Propagate(r.raised, "write")
    /\ UNCHANGED <<ingestVars, input_objects, level, release_metrics,
                   release_level, report,
                   release_metrics_file, output_file, output_before>>

\* write_report(input_table, output_file)
RunWriteReport ==
    /\ run_pc = "write"
    /\ output_file' = WriteFile(output_file, write_report(data))
    /\ run_pc' = "done"
    /\ UNCHANGED <<ingestVars, tableVars, release_metrics_file, output_before>>

----------------------------------------------------------------------------
(* Specifications *)

NextAFx == MeasureAFx /\ UNCHANGED <<pa2Vars, ingestVars, tableVars, runVars>>
InitAFx == InputsAFx /\ PA2Idle /\ IngestIdle /\ TableIdle /\ RunIdle
SpecAFx == InitAFx /\ [][NextAFx]_vars

NextPA2 == MeasurePA2 /\ UNCHANGED <<afxVars, ingestVars, tableVars, runVars>>
InitPA2 == InputsPA2 /\ AFxIdle /\ IngestIdle /\ TableIdle /\ RunIdle
SpecPA2 == InitPA2 /\ [][NextPA2]_vars

NextIngest ==
    \/ IngestFile /\ UNCHANGED <<afxVars, pa2Vars, tableVars, runVars>>
    \/ IngestReturn /\ UNCHANGED <<afxVars, pa2Vars, tableVars, runVars>>
InitIngest == InputsIngest /\ AFxIdle /\ PA2Idle /\ TableIdle /\ RunIdle
SpecIngest == InitIngest /\ [][NextIngest]_vars

NextTable ==
    \/ ObjectsToTable /\ UNCHANGED <<afxVars, pa2Vars, ingestVars, runVars>>
    \/ AddReleaseMetric /\ UNCHANGED <<afxVars, pa2Vars, ingestVars, runVars>>
InitTable == InputsTable /\ AFxIdle /\ PA2Idle /\ IngestIdle /\ RunIdle
SpecTable == InitTable /\ [][NextTable]_vars

NextRun ==
    \/ RunIngestFile /\ UNCHANGED <<afxVars, pa2Vars>>
    \/ RunIngestReturn /\ UNCHANGED <<afxVars, pa2Vars>>
    \/ RunObjectsToTable /\ UNCHANGED <<afxVars, pa2Vars>>
    \/ RunLoadMetrics /\ UNCHANGED <<afxVars, pa2Vars>>
    \/ RunAddReleaseMetric /\ UNCHANGED <<afxVars, pa2Vars>>
    \/ RunWriteReport /\ UNCHANGED <<afxVars, pa2Vars>>
InitRun == InputsRun /\ AFxIdle /\ PA2Idle
SpecRun == InitRun /\ [][NextRun]_vars

----------------------------------------------------------------------------
(* Claims about measureAFx, under SpecAFx *)

AFxReturned == afx.state = "returned"
AFxHasRms == "rmsDistMas" \in DOMAIN afx.extras_at_call
AFxRms == afx.extras_at_call["rmsDistMas"]

\* C1: whenever the AMx quantity is NaN, the call returns (no error), the
\* returned quantity is NaN in percent, and the comparison against
\* rmsDistMas was not evaluated, whatever rmsDistMas holds (or whether the
\* key is there at all) and whatever the ADx threshold.
C1_NaNAMxGivesNaN ==
    (afx.state # "pending" /\ isnan(amx.quantity)) =>
        /\ afx.state = "returned"
        /\ afx.quantity = RatioNaN
        /\ afx.unit = "percent"
        /\ ~afx.compared

\* C1 witness: a NaN AMx with the worked example's array and a finite
\* threshold has returned NaN.
C1_Witness ==
    /\ AFxReturned
    /\ isnan(amx.quantity)
    /\ AFxHasRms /\ AFxRms = ExampleRms
    /\ adx_spec.threshold = Fin(2)
    /\ afx.quantity = RatioNaN

\* the number of entries of r strictly greater than limit
CountAbove(r, limit) == Cardinality({i \in 1..Len(r) : FloatGt(r[i], limit)})

\* C2: for a non-NaN AMx quantity a, a threshold d and a non-empty array r,
\* the returned quantity q satisfies q = 100 * #{i : r[i] > a + d} / len(r),
\* in percent; with a = 5, d = 2 and r = [3..10] it is 75/2 = 37.5.
C2_FractionAboveLimit ==
    (AFxReturned /\ ~isnan(amx.quantity) /\ AFxHasRms /\ Len(AFxRms) > 0) =>
        /\ afx.quantity.cls = "fin"
        /\ afx.unit = "percent"
        /\ afx.quantity.num * Len(AFxRms) =
              100 * CountAbove(AFxRms, FloatAdd(amx.quantity, adx_spec.threshold))
                  * afx.quantity.den
        /\ (amx.quantity = Fin(5) /\ adx_spec.threshold = Fin(2)
              /\ AFxRms = ExampleRms)
              => afx.quantity = [cls |-> "fin", num |-> 75, den |-> 2]

\* C2 witness: an array with an entry equal to a + d (7 = 5 + 2), one above
\* and one below has returned 100/3: the equal entry is not counted.
C2_Witness ==
    /\ AFxReturned
    /\ amx.quantity = Fin(5) /\ adx_spec.threshold = Fin(2)
    /\ AFxHasRms /\ AFxRms = <<Fin(3), Fin(7), Fin(8)>>
    /\ afx.quantity = [cls |-> "fin", num |-> 100, den |-> 3]

\* C9 as stated: for every rmsDistMas array, the empty one included, the
\* returned quantity is NaN exactly when the AMx quantity is NaN.
C9_NaNExactlyWhenAMxNaN ==
    (AFxReturned /\ AFxHasRms) =>
        (isnan(afx.quantity) <=> isnan(amx.quantity))

\* C9 amended: for every non-empty rmsDistMas array and every threshold, the
\* returned quantity is NaN exactly when the AMx quantity is NaN; for the
\* empty array it is NaN whatever the AMx quantity is.
C9_NaNExactlyWhenAMxNaN_NonEmpty ==
    (AFxReturned /\ AFxHasRms) =>
        /\ Len(AFxRms) > 0 => (isnan(afx.quantity) <=> isnan(amx.quantity))
        /\ Len(AFxRms) = 0 => isnan(afx.quantity)

\* C9 witness: a finite AMx with an array holding a NaN entry and a NaN
\* threshold has returned a number.
C9_Witness ==
    /\ AFxReturned
    /\ amx.quantity = Fin(1)
    /\ isnan(adx_spec.threshold)
    /\ AFxHasRms /\ Len(AFxRms) = 2 /\ AFxRms[1] = NaN
    /\ ~isnan(afx.quantity)

\* C10 as stated: the returned extras map 'ADx' to the ADx datum passed and
\* every key of the AMx extras to the AMx value, whatever keys the AMx extras
\* hold; amx.extras is as the call found it.
C10_ExtrasCarryADxAndAMx ==
    AFxReturned =>
        /\ "ADx" \in DOMAIN afx.extras
        /\ afx.extras["ADx"] = adx.datum
        /\ \A k \in DOMAIN afx.extras_at_call :
              k \in DOMAIN afx.extras /\ afx.extras[k] = afx.extras_at_call[k]
        /\ amx.extras = afx.extras_at_call

\* C10 amended: the returned extras hold exactly the keys of the AMx extras
\* and 'ADx'; every key of the AMx extras maps to the AMx value (so an AMx
\* key named 'ADx' replaces the ADx datum passed), 'ADx' maps to the ADx
\* datum passed when the AMx extras hold no such key; amx.extras is as the
\* call found it.
C10_ExtrasAMxWinsOverADx ==
    AFxReturned =>
        /\ DOMAIN afx.extras = DOMAIN afx.extras_at_call \cup {"ADx"}
        /\ \A k \in DOMAIN afx.extras_at_call :
              afx.extras[k] = afx.extras_at_call[k]
        /\ "ADx" \notin DOMAIN afx.extras_at_call => afx.extras["ADx"] = adx.datum
        /\ amx.extras = afx.extras_at_call

\* C10 witness: the AMx extras hold 'ADx' with another datum than the one
\* passed, and the returned extras carry the AMx one.
C10_Witness ==
    /\ AFxReturned
    /\ "ADx" \in DOMAIN afx.extras_at_call
    /\ afx.extras_at_call["ADx"] # adx.datum
    /\ afx.extras["ADx"] = afx.extras_at_call["ADx"]

----------------------------------------------------------------------------
(* Claims about measurePA2, under SpecPA2 *)

PA2Returned == pa2.state = "returned"

\* magDiff with entry (trial, star) set to v
WithEntry(magDiff, trial, star, v) ==
    [magDiff EXCEPT ![trial] = [@ EXCEPT ![star] = v]]

\* the arrays one irrelevant-row mutation away: an entry of a row above row 0
\* changed, the last row dropped (rows 1 and up), or a constant row appended
\* as a new last trial
RowMutations(magDiff) ==
    {WithEntry(magDiff, t, j, v) :
        t \in 2..Len(magDiff), j \in 1..Len(magDiff[1]), v \in LaterTrialValues}
    \cup (IF Len(magDiff) > 1
          THEN {SubSeq(magDiff, 1, Len(magDiff) - 1)} ELSE {})
    \cup {Append(magDiff, [j \in 1..Len(magDiff[1]) |-> v]) : v \in LaterTrialValues}

\* C3: the returned quantity depends only on row 0: the call on any array
\* that differs by one mutation of the rows above row 0 (an entry changed, a
\* trial dropped or added), with the same threshold and metric, returns the
\* same quantity.  Every input array with the same row 0 is reached from any
\* other by such mutations, each step again an input of the specification.
C3_OnlyRowZeroMatters ==
    PA2Returned =>
        \A alt \in RowMutations(pa1.magDiff) :
            measurePA2("PA2", [pa1 EXCEPT !.magDiff = alt], pf1_thresh).quantity
                = pa2.quantity

\* C3 witness: a second trial whose own percentile differs from row 0's,
\* and the returned quantity is row 0's.
C3_Witness ==
    /\ PA2Returned
    /\ Len(pa1.magDiff) = 2
    /\ np_percentile(np_abs(pa1.magDiff[2]), 100 - pf1_thresh) # pa2.quantity
    /\ np_percentile(np_abs(pa1.magDiff[1]), 100 - pf1_thresh) = pa2.quantity

\* the k-th (from 0) smallest of the values a, by counting
OrderStat(a, k) ==
    CHOOSE x \in {a[i] : i \in 1..Len(a)} :
        /\ Cardinality({i \in 1..Len(a) : a[i] < x}) <= k
        /\ k < Cardinality({i \in 1..Len(a) : a[i] <= x})

\* C4: with q = 100 - p and n the length of row 0, the returned value is
\* lo + frac * (hi - lo), where lo and hi are the order statistics of the
\* absolute values of row 0 at floor(q(n-1)/100) and the next index, and
\* frac the fractional part of q(n-1)/100; negating row 0 does not change it.
C4_InterpolatedPercentileOfAbs ==
    PA2Returned =>
        LET row == pa1.magDiff[1]
            a == [i \in 1..Len(row) |-> IF row[i] < 0 THEN -row[i] ELSE row[i]]
            n == Len(row)
            q == 100 - pf1_thresh
            k == CHOOSE j \in 0..(n - 1) :
                     100 * j <= q * (n - 1) /\ (q * (n - 1) < 100 * (j + 1) \/ j = n - 1)
            k1 == IF k = n - 1 THEN k ELSE k + 1
        IN  /\ pa2.quantity.cls = "fin"
            /\ pa2.quantity.num * 100 =
                  pa2.quantity.den *
                     (100 * OrderStat(a, k)
                        + (q * (n - 1) - 100 * k) * (OrderStat(a, k1) - OrderStat(a, k)))
            /\ measurePA2("PA2",
                  [pa1 EXCEPT !.magDiff = <<[i \in 1..n |-> -row[i]]>>],
                  pf1_thresh).quantity = pa2.quantity
            /\ pa2.unit = pa1.unit

\* C4 witness: row 0 = [-2, 0, 1] and PF1 = 20: the 80th percentile of
\* [0, 1, 2] is 1.6 = 8/5.
C4_Witness ==
    /\ PA2Returned
    /\ pa1.magDiff[1] = <<-2, 0, 1>>
    /\ pf1_thresh = 20
    /\ pa2.quantity = [cls |-> "fin", num |-> 8, den |-> 5]

----------------------------------------------------------------------------
(* Claim about ingest_data, under SpecIngest *)

\* the filter name file i yields
FilterOfFile(i) == filenames[i].job.filter

\* C7: once ingest_data has returned (every file loaded and named its
\* filter), the keys of the mapping are exactly the filter names the files
\* yield, and each maps to the Job of the last file that yields it.
C7_LastWriteWins ==
    ingest = "returned" =>
        /\ DOMAIN jobs = {FilterOfFile(i) : i \in 1..Len(filenames)}
        /\ \A f \in DOMAIN jobs :
              \E i \in 1..Len(filenames) :
                  /\ FilterOfFile(i) = f
                  /\ \A j \in (i + 1)..Len(filenames) : FilterOfFile(j) # f
                  /\ jobs[f] = filenames[i].job

\* C7 witness: three files, the first and the last for the same filter with
\* different Jobs; the mapping holds the last one's.
C7_Witness ==
    /\ ingest = "returned"
    /\ Len(filenames) = 3
    /\ FilterOfFile(1) = FilterOfFile(3)
    /\ FilterOfFile(2) # FilterOfFile(1)
    /\ filenames[1].job # filenames[3].job
    /\ jobs[FilterOfFile(1)] = filenames[3].job

----------------------------------------------------------------------------
(* Claims about objects_to_table and add_release_metric, under SpecTable *)

Tabulated == report.state = "tabulated"

\* the measurement passes the level test: spec_name is null or the level
PassesLevel(meas) == meas.spec_name = NoSpec \/ meas.spec_name = level

\* the measurements of the Job of filter f that pass, in order
PassingOf(f) == SelectSeq(input_objects[f].measurements, PassesLevel)

\* the rows of filter f, in the order of the table
RowsOfFilter(f) ==
    LET OfFilter(row) == row["Filter"] = f
    IN  SelectSeq(data.rows, OfFilter)

RECURSIVE TotalPassing(_)
\* the number of passing measurements over the Jobs of the filters S
TotalPassing(S) ==
    IF S = {} THEN 0
    ELSE LET f == CHOOSE y \in S : TRUE
         IN  Len(PassingOf(f)) + TotalPassing(S \ {f})

\* C5: the table has one row per (job, measurement) pair whose spec_name is
\* null or the level, and none for any other measurement: the rows of each
\* filter are, in order, the passing measurements of that filter's Job (same
\* metric, same value), every row belongs to a filter of the mapping, and the
\* row count is the number of passing measurements over all Jobs.
C5_OneRowPerPassingMeasurement ==
    Tabulated =>
        /\ \A i \in 1..Len(data.rows) : data.rows[i]["Filter"] \in DOMAIN input_objects
        /\ \A f \in DOMAIN input_objects :
              /\ Len(RowsOfFilter(f)) = Len(PassingOf(f))
              /\ \A k \in 1..Len(PassingOf(f)) :
                    /\ RowsOfFilter(f)[k]["Metric"] = PassingOf(f)[k].metric
                    /\ RowsOfFilter(f)[k]["Value"].dash = PassingOf(f)[k].quantity.none
                    /\ RowsOfFilter(f)[k]["Value"].value = PassingOf(f)[k].quantity.value
        /\ Len(data.rows) = TotalPassing(DOMAIN input_objects)

\* C5 witness: a Job holds a measurement of another level and one with no
\* level; the table has the one row.
C5_Witness ==
    /\ Tabulated
    /\ \E f \in DOMAIN input_objects :
          LET ms == input_objects[f].measurements
          IN  /\ Len(ms) = 2
              /\ ms[1].spec_name \notin {NoSpec, level}
              /\ ms[2].spec_name = NoSpec
    /\ Len(data.rows) = 1

\* no two rows of the table have the same (Metric, Filter) pair
UnambiguousRows ==
    \A a, b \in 1..Len(data.rows) :
        (a # b) => \/ data.rows[a]["Metric"] # data.rows[b]["Metric"]
                   \/ data.rows[a]["Filter"] # data.rows[b]["Filter"]

\* C6 as stated: when each Job holds at most one measurement per (metric,
\* spec_name) combination, no two rows have the same (Metric, Filter) pair.
C6_UnambiguousPerMetricAndSpecName ==
    (/\ Tabulated
     /\ \A f \in DOMAIN input_objects :
           LET ms == input_objects[f].measurements
           IN  \A a, b \in 1..Len(ms) :
                   (a # b) => \/ ms[a].metric # ms[b].metric
                              \/ ms[a].spec_name # ms[b].spec_name)
        => UnambiguousRows

\* C6 amended: when each Job holds at most one measurement per metric among
\* its measurements whose spec_name is null or the level, no two rows have
\* the same (Metric, Filter) pair.
C6_UnambiguousPerMetricAmongPassing ==
    (/\ Tabulated
     /\ \A f \in DOMAIN input_objects :
           LET ms == input_objects[f].measurements
           IN  \A a, b \in 1..Len(ms) :
                   (a # b /\ PassesLevel(ms[a]) /\ PassesLevel(ms[b]))
                       => ms[a].metric # ms[b].metric)
        => UnambiguousRows

\* C6 witness: a Job holds the same metric at the level and at another
\* level; the row of the other level is dropped and one row is left.
C6_Witness ==
    /\ Tabulated
    /\ \E f \in DOMAIN input_objects :
          LET ms == input_objects[f].measurements
          IN  /\ Len(ms) = 2
              /\ ms[1].metric = ms[2].metric
              /\ ms[1].spec_name = level
              /\ ms[2].spec_name \notin {NoSpec, level}
    /\ Len(data.rows) = 1
    /\ UnambiguousRows

ReleaseColumn == "Release Target: " \o release_level

\* C8: when every row's metric is in release_metrics, add_release_metric
\* returns, the table has the column 'Release Target: <level>' added after
\* the columns it had, the rows are as many and in the same order with every
\* earlier column value as it was, and row i's new value is the threshold of
\* the release metric of row i's metric at the level for row i's filter.
C8_AddsOneReleaseColumn ==
    /\ (report.state \in {"released", "raised"}
          /\ \A i \in 1..Len(report.before.rows) :
                report.before.rows[i]["Metric"] \in DOMAIN release_metrics)
          => report.state = "released"
    /\ report.state = "released" =>
          /\ data.colnames = Append(report.before.colnames, ReleaseColumn)
          /\ ReleaseColumn \notin {report.before.colnames[c] :
                                      c \in 1..Len(report.before.colnames)}
          /\ Len(data.rows) = Len(report.before.rows)
          /\ \A i \in 1..Len(data.rows) :
                /\ DOMAIN data.rows[i] = DOMAIN report.before.rows[i] \cup {ReleaseColumn}
                /\ \A c \in DOMAIN report.before.rows[i] :
                      data.rows[i][c] = report.before.rows[i][c]
                /\ data.rows[i][ReleaseColumn] =
                      ReleaseTarget(release_metrics[data.rows[i]["Metric"]],
                                    release_level, data.rows[i]["Filter"])

\* C8 witness: a table of two rows of different filters and metrics has got
\* the column, with different targets.
C8_Witness ==
    /\ report.state = "released"
    /\ Len(data.rows) = 2
    /\ data.rows[1]["Filter"] # data.rows[2]["Filter"]
    /\ data.rows[1]["Metric"] # data.rows[2]["Metric"]
    /\ data.rows[1][ReleaseColumn] # data.rows[2][ReleaseColumn]
    /\ Len(data.colnames) = 8

----------------------------------------------------------------------------
(* Claim about run, under SpecRun *)

\* file i loads and names its filter
FileLoads(i) == filenames[i].readable /\ filenames[i].job.filter # "?"

RunBothGiven == BothGiven(release_metrics_file, release_level)

\* the columns of the table objects_to_table builds at the default level
DesignColumns ==
    <<"Metric", "Filter", "Value", "Unit", "Operator",
      "SRD Requirement: design", "Comments">>

\* C11: the output file is written at most once; as long as run has not
\* finished, and so also after an error has left it, the file at the output
\* path is the one that was there before (not written, not overwritten);
\* when run has finished the file has been written once, with the report of
\* the final table, every input file was ingested, the table was built and,
\* when a release metrics file and a release level were both given, the
\* release column was added; so a run with a file that does not load or
\* name its filter, or with a row whose metric the release metrics lack,
\* does not finish: it ends in the error.
C11_ReportWrittenOnceAndLast ==
    /\ output_file.writes <= 1
    /\ run_pc # "done" => output_file = output_before
    /\ run_pc \in {"done", "raised"} =>
          ((\/ \E i \in 1..Len(filenames) : ~FileLoads(i)
            \/ /\ RunBothGiven
               /\ \E i \in 1..Len(data.rows) :
                     data.rows[i]["Metric"] \notin DOMAIN release_metrics_file.metrics)
              => run_pc = "raised")
    /\ run_pc = "done" =>
          /\ output_file.writes = 1
          /\ output_file.exists
          /\ output_file.content = write_report(data)
          /\ file_idx = Len(filenames)
          /\ \A i \in 1..Len(filenames) : FileLoads(i)
          /\ input_objects = jobs
          /\ DOMAIN jobs = {filenames[i].job.filter : i \in 1..Len(filenames)}
          /\ SubSeq(data.colnames, 1, 7) = DesignColumns
          /\ RunBothGiven =>
                data.colnames = Append(DesignColumns,
                                       "Release Target: " \o release_level)
          /\ ~RunBothGiven => data.colnames = DesignColumns

\* C11 witness: two files were ingested and the table built, the release
\* metrics lack the metric of a row, run has ended in the error and the
\* earlier report at the output path is as it was.
C11_Witness ==
    /\ run_pc = "raised"
    /\ Len(filenames) = 2
    /\ file_idx = 2
    /\ \A i \in 1..2 : FileLoads(i)
    /\ Len(data.rows) >= 1
    /\ \E i \in 1..Len(data.rows) :
          data.rows[i]["Metric"] \notin DOMAIN release_metrics
    /\ release_metrics_file.readable
    /\ output_before = EarlierReport
    /\ output_file = EarlierReport

====
